---- MODULE Spec2Model ----
(***************************************************************************)
(* A model of the AI-Agents repository:                                    *)
(*   - the tool library src/multi-tool-agent/file_ops.py, as operations on *)
(*     a small tree-shaped filesystem and a process working directory;     *)
(*   - the chat front end src/telegram-agent/telegram_bot.py, as message   *)
(*     handlers over the session stores and the transport.                 *)
(***************************************************************************)
EXTENDS Integers, Sequences, FiniteSets, TLC

VARIABLES
    fs,        \* the host filesystem: path -> node
    cwd,       \* the process's current working directory
    platform,  \* "posix" or "nt": line separator and rename/rmdir behaviour
    last,      \* the most recent tool call: its arguments and what it returned
    allow_list,     \* AUTHORIZED_CHAT_IDS
    user_contexts,  \* the chats that have an entry in user_contexts
    sessions,       \* session_service: chat -> its session "session_<chat>"
    tmp_files,      \* the chats that have a response_<chat>_<time>.txt on disk
    uploads,        \* the uploaded documents saved in the working directory
    pc,             \* start_bot: "polling" or "sleeping"
    handled,        \* the most recent handler run: what it called and how it ended
    pool            \* telebot's worker pool: the handler tasks queued, running and done

fsvars == <<fs, cwd, platform, last>>
botvars == <<allow_list, user_contexts, sessions, tmp_files, uploads, pc, handled, pool>>
vars == <<fs, cwd, platform, last, allow_list, user_contexts, sessions, tmp_files, uploads,
          pc, handled, pool>>

----------------------------------------------------------------------------
(* Bounds of the model.                                                    *)

\* longest text (in characters) a file holds or a call passes
MaxContentLen == 1
\* longest list passed to delete_files
MaxListLen == 2

----------------------------------------------------------------------------
(* Paths, nodes and text.                                                  *)

Names == {"a", "b"}
\* the names used one level down
SubNames == {"a"}
Root == <<>>
Paths == {<<x>> : x \in Names} \cup {<<x, y>> : x \in Names, y \in SubNames}
Dirs == {Root} \cup Paths
\* an argument of the wrong type (None where a path or a string is expected)
NoneArg == <<"None">>

Chars == {"a", "LF", "CR"}
RECURSIVE SeqsUpTo(_, _)
SeqsUpTo(S, n) ==
    IF n = 0 THEN {<<>>}
    ELSE LET shorter == SeqsUpTo(S, n - 1)
         IN shorter \cup {Append(s, x) : s \in shorter, x \in S}
Contents == SeqsUpTo(Chars, MaxContentLen)

NoneNode == [kind |-> "none", data |-> <<>>]
DirNode == [kind |-> "dir", data |-> <<>>]
FileNode(raw) == [kind |-> "file", data |-> raw]

Parent(p) == SubSeq(p, 1, Len(p) - 1)
Base(p) == p[Len(p)]
IsPrefix(p, q) == Len(p) <= Len(q) /\ SubSeq(q, 1, Len(p)) = p
Rest(p, q) == SubSeq(q, Len(p) + 1, Len(q))
Kind(f, p) ==
    IF p = Root THEN "dir" ELSE IF p \in Paths THEN f[p].kind ELSE "none"
Children(f, p) == {q \in Paths : Len(q) = Len(p) + 1 /\ IsPrefix(p, q) /\ f[q].kind # "none"}
Descendants(f, p) == {q \in Paths : Len(q) > Len(p) /\ IsPrefix(p, q) /\ f[q].kind # "none"}
\* every entry of the tree lies in a directory
WellFormed(f) == \A p \in Paths : f[p].kind # "none" => Kind(f, Parent(p)) = "dir"

\* f with the subtree at p removed
Prune(f, p) == [q \in Paths |-> IF IsPrefix(p, q) THEN NoneNode ELSE f[q]]
\* g with a copy of f's subtree at src placed at dst
Graft(g, f, src, dst) ==
    [q \in Paths |->
        IF IsPrefix(dst, q)
        THEN (IF src \o Rest(dst, q) \in Paths THEN f[src \o Rest(dst, q)] ELSE NoneNode)
        ELSE g[q]]
\* the copy of src's subtree at dst stays inside the modelled paths
Fits(f, src, dst) ==
    /\ dst \in Paths
    /\ \A q \in Descendants(f, src) : dst \o Rest(src, q) \in Paths

\* text mode, writing: each "\n" becomes os.linesep
LineSep == IF platform = "nt" THEN <<"CR", "LF">> ELSE <<"LF">>
RECURSIVE encode_write(_, _)
encode_write(s, sep) ==
    IF s = <<>> THEN <<>>
    ELSE (IF Head(s) = "LF" THEN sep ELSE <<Head(s)>>) \o encode_write(Tail(s), sep)
\* text mode, reading: universal newlines, "\r\n" and "\r" become "\n"
RECURSIVE decode_read(_)
decode_read(raw) ==
    IF raw = <<>> THEN <<>>
    ELSE IF Head(raw) = "CR"
         THEN IF Len(raw) >= 2 /\ raw[2] = "LF"
              THEN <<"LF">> \o decode_read(Tail(Tail(raw)))
              ELSE <<"LF">> \o decode_read(Tail(raw))
         ELSE <<Head(raw)>> \o decode_read(Tail(raw))

\* f.readlines(): the text cut after each "\n", terminators kept
RECURSIVE readlines_from(_, _)
readlines_from(text, cur) ==
    IF text = <<>> THEN (IF cur = <<>> THEN <<>> ELSE <<cur>>)
    ELSE IF Head(text) = "LF"
         THEN <<Append(cur, "LF")>> \o readlines_from(Tail(text), <<>>)
         ELSE readlines_from(Tail(text), Append(cur, Head(text)))
readlines(text) == readlines_from(text, <<>>)
\* line.rstrip('\n')
RECURSIVE rstrip_nl(_)
rstrip_nl(line) ==
    IF line # <<>> /\ line[Len(line)] = "LF"
    THEN rstrip_nl(SubSeq(line, 1, Len(line) - 1))
    ELSE line

----------------------------------------------------------------------------
(* The result contract: what a tool body does, and the except clause that  *)
(* closes every tool function.                                             *)

Statuses == {"success", "error", "partial"}

\* the body returned a result
Return(status, f, c, out) == [exc |-> "none", status |-> status, fs |-> f, cwd |-> c, out |-> out]
\* the body raised; the filesystem is as the body left it
Raise(kind, f, c) == [exc |-> kind, status |-> "none", fs |-> f, cwd |-> c, out |-> <<>>]

\* a variant that catches operating-system errors only
except_OSError(r) ==
    [status |-> IF r.exc = "none" THEN r.status ELSE IF r.exc = "OSError" THEN "error" ELSE "none",
     raised |-> r.exc \notin {"none", "OSError"},
     fs |-> r.fs, cwd |-> r.cwd, out |-> r.out]
\* `except Exception as e: return {"status": "error", "message": ...}`
except_Exception(r) ==
    [status |-> IF r.exc = "none" THEN r.status ELSE "error",
     raised |-> FALSE,
     fs |-> r.fs, cwd |-> r.cwd, out |-> r.out]

\* a variant without exist_ok: an existing target is an error
RECURSIVE makedirs_no_exist_ok(_, _)
makedirs_no_exist_ok(f, p) ==
    IF Kind(f, p) # "none" THEN [exc |-> "OSError", fs |-> f]
    ELSE LET up == IF Kind(f, Parent(p)) = "none"
                   THEN makedirs_no_exist_ok(f, Parent(p))
                   ELSE [exc |-> "none", fs |-> f]
         IN IF up.exc # "none" THEN up
            ELSE IF Kind(up.fs, Parent(p)) # "dir" THEN [exc |-> "OSError", fs |-> up.fs]
            ELSE [exc |-> "none", fs |-> [up.fs EXCEPT ![p] = DirNode]]
\* os.makedirs(p, exist_ok=True): [exc, fs]
RECURSIVE makedirs(_, _)
makedirs(f, p) ==
    IF Kind(f, p) = "dir" THEN [exc |-> "none", fs |-> f]
    ELSE IF Kind(f, p) = "file" THEN [exc |-> "OSError", fs |-> f]
    ELSE LET up == IF Kind(f, Parent(p)) = "none"
                   THEN makedirs(f, Parent(p))
                   ELSE [exc |-> "none", fs |-> f]
         IN IF up.exc # "none" THEN up
            ELSE IF Kind(up.fs, Parent(p)) # "dir" THEN [exc |-> "OSError", fs |-> up.fs]
            ELSE [exc |-> "none", fs |-> [up.fs EXCEPT ![p] = DirNode]]
\* Path(p).parent.mkdir(parents=True, exist_ok=True)
parent_mkdir(f, p) == makedirs(f, Parent(p))

\* open(p, mode).write(content): [exc, fs]
open_write(f, p, content, mode) ==
    IF mode \notin {"w", "a"} THEN [exc |-> "ValueError", fs |-> f]
    ELSE IF Kind(f, Parent(p)) # "dir" \/ Kind(f, p) = "dir" THEN [exc |-> "OSError", fs |-> f]
    ELSE LET old == IF mode = "a" /\ Kind(f, p) = "file" THEN f[p].data ELSE <<>>
         IN IF content = NoneArg
            THEN [exc |-> "TypeError", fs |-> [f EXCEPT ![p] = FileNode(old)]]
            ELSE [exc |-> "none",
                  fs |-> [f EXCEPT ![p] = FileNode(old \o encode_write(content, LineSep))]]

----------------------------------------------------------------------------
(* The tool functions.  Each X_try is the body of the function's try       *)
(* block; X is the function.  `fault` is the operating system refusing the *)
(* call's main system call (permission denied, I/O error).                 *)

get_cwd_try(f, c, fault) ==
    IF fault \/ Kind(f, c) # "dir" THEN Raise("OSError", f, c)
    ELSE Return("success", f, c, c)
get_cwd(f, c, fault) == except_Exception(get_cwd_try(f, c, fault))

mkdir_try(f, c, loc, name, fault) ==
    IF loc = NoneArg \/ name = "None" THEN Raise("TypeError", f, c)
    ELSE IF fault THEN Raise("OSError", f, c)
    ELSE LET r == makedirs(f, Append(loc, name))
         IN IF r.exc # "none" THEN Raise(r.exc, r.fs, c)
            ELSE Return("success", r.fs, c, Append(loc, name))
mkdir(f, c, loc, name, fault) == except_Exception(mkdir_try(f, c, loc, name, fault))

chdir_try(f, c, p, fault) ==
    IF p = NoneArg THEN Raise("TypeError", f, c)
    ELSE IF fault \/ Kind(f, p) # "dir" THEN Raise("OSError", f, c)
    ELSE Return("success", f, p, p)
chdir(f, c, p, fault) == except_Exception(chdir_try(f, c, p, fault))

create_file_try(f, c, p, content, fault) ==
    IF p = NoneArg THEN Raise("TypeError", f, c)
    ELSE LET d == parent_mkdir(f, p)
         IN IF d.exc # "none" THEN Raise(d.exc, d.fs, c)
            ELSE IF fault THEN Raise("OSError", d.fs, c)
            ELSE LET w == open_write(d.fs, p, content, "w")
                 IN IF w.exc # "none" THEN Raise(w.exc, w.fs, c)
                    ELSE Return("success", w.fs, c, p)
create_file(f, c, p, content, fault) == except_Exception(create_file_try(f, c, p, content, fault))

read_file_try(f, c, p, fault) ==
    IF p = NoneArg THEN Raise("TypeError", f, c)
    ELSE IF fault \/ Kind(f, p) # "file" THEN Raise("OSError", f, c)
    ELSE Return("success", f, c,
                [content |-> decode_read(f[p].data), file_size |-> Len(f[p].data)])
read_file(f, c, p, fault) == except_Exception(read_file_try(f, c, p, fault))

write_file_try(f, c, p, content, mode, fault) ==
    IF p = NoneArg THEN Raise("TypeError", f, c)
    ELSE LET d == parent_mkdir(f, p)
         IN IF d.exc # "none" THEN Raise(d.exc, d.fs, c)
            ELSE IF fault THEN Raise("OSError", d.fs, c)
            ELSE LET w == open_write(d.fs, p, content, mode)
                 IN IF w.exc # "none" THEN Raise(w.exc, w.fs, c)
                    ELSE Return("success", w.fs, c,
                                IF mode = "a" THEN "appended" ELSE "written")
write_file(f, c, p, content, mode, fault) ==
    except_Exception(write_file_try(f, c, p, content, mode, fault))

\* os.remove(p): [exc, fs]
os_remove(f, p, fault) ==
    IF fault \/ Kind(f, p) # "file" THEN [exc |-> "OSError", fs |-> f]
    ELSE [exc |-> "none", fs |-> [f EXCEPT ![p] = NoneNode]]

\* a variant without the existence check: a missing file counts as deleted
delete_file_unchecked(f, c, p, fault) ==
    IF p = NoneArg THEN Raise("TypeError", f, c)
    ELSE LET r == os_remove(f, p, fault)
         IN IF r.exc # "none" /\ Kind(f, p) # "none" THEN Raise(r.exc, r.fs, c)
            ELSE Return("success", r.fs, c, "deleted")
delete_file_try(f, c, p, fault) ==
    IF p = NoneArg THEN Raise("TypeError", f, c)
    ELSE IF Kind(f, p) = "none" THEN Return("error", f, c, "does not exist")
    ELSE LET r == os_remove(f, p, fault)
         IN IF r.exc # "none" THEN Raise(r.exc, r.fs, c)
            ELSE Return("success", r.fs, c, "deleted")
delete_file(f, c, p, fault) == except_Exception(delete_file_try(f, c, p, fault))

\* a loop that gives up at the first path it cannot delete
RECURSIVE delete_loop_until_failure(_, _, _, _, _)
delete_loop_until_failure(f, list, deleted, failed, fault) ==
    IF list = <<>> THEN [fs |-> f, deleted |-> deleted, failed |-> failed]
    ELSE LET p == Head(list)
             r == os_remove(f, p, fault)
         IN IF p = NoneArg
            THEN [fs |-> f, deleted |-> deleted,
                  failed |-> Append(failed, [file |-> p, reason |-> "TypeError"])]
            ELSE IF Kind(f, p) = "none"
            THEN [fs |-> f, deleted |-> deleted,
                  failed |-> Append(failed, [file |-> p, reason |-> "File does not exist"])]
            ELSE IF r.exc = "none"
            THEN delete_loop_until_failure(r.fs, Tail(list), Append(deleted, p), failed, fault)
            ELSE [fs |-> r.fs, deleted |-> deleted,
                  failed |-> Append(failed, [file |-> p, reason |-> r.exc])]

\* the loop of delete_files: each path on its own, a failure is recorded and the loop goes on
RECURSIVE delete_loop(_, _, _, _, _)
delete_loop(f, list, deleted, failed, fault) ==
    IF list = <<>> THEN [fs |-> f, deleted |-> deleted, failed |-> failed]
    ELSE LET p == Head(list)
         IN IF p = NoneArg
            THEN delete_loop(f, Tail(list), deleted,
                             Append(failed, [file |-> p, reason |-> "TypeError"]), fault)
            ELSE IF Kind(f, p) = "none"
            THEN delete_loop(f, Tail(list), deleted,
                             Append(failed, [file |-> p, reason |-> "File does not exist"]), fault)
            ELSE LET r == os_remove(f, p, fault)
                 IN IF r.exc = "none"
                    THEN delete_loop(r.fs, Tail(list), Append(deleted, p), failed, fault)
                    ELSE delete_loop(r.fs, Tail(list), deleted,
                                     Append(failed, [file |-> p, reason |-> r.exc]), fault)

\* a variant whose status is partial only when some, but not all, paths failed
delete_status_some_not_all(deleted, failed) ==
    IF Len(failed) = 0 \/ Len(deleted) = 0 THEN "success" ELSE "partial"
\* "success" if len(failed) == 0 else "partial"
delete_status(deleted, failed) ==
    IF Len(failed) = 0 THEN "success" ELSE "partial"

\* listIsNone: the argument is not a list at all
delete_files_try(f, c, list, listIsNone, fault) ==
    IF listIsNone THEN Raise("TypeError", f, c)
    ELSE LET r == delete_loop(f, list, <<>>, <<>>, fault)
         IN Return(delete_status(r.deleted, r.failed), r.fs, c,
                   [deleted_count |-> Len(r.deleted), failed_count |-> Len(r.failed),
                    deleted_files |-> r.deleted, failed_files |-> r.failed])
delete_files(f, c, list, listIsNone, fault) ==
    except_Exception(delete_files_try(f, c, list, listIsNone, fault))

\* shutil.copy2(src, dst): [exc, fs]
copy2(f, src, dst) ==
    IF src = NoneArg THEN [exc |-> "TypeError", fs |-> f]
    ELSE LET real == IF Kind(f, dst) = "dir" THEN Append(dst, Base(src)) ELSE dst
         IN IF Kind(f, src) # "file" \/ real = src \/ Kind(f, real) = "dir"
               \/ Kind(f, Parent(real)) # "dir"
            THEN [exc |-> "OSError", fs |-> f]
            ELSE [exc |-> "none", fs |-> [f EXCEPT ![real] = f[src]]]

copy_file_try(f, c, src, dst, fault) ==
    IF dst = NoneArg THEN Raise("TypeError", f, c)
    ELSE LET d == parent_mkdir(f, dst)
         IN IF d.exc # "none" THEN Raise(d.exc, d.fs, c)
            ELSE IF fault THEN Raise("OSError", d.fs, c)
            ELSE LET r == copy2(d.fs, src, dst)
                 IN IF r.exc # "none" THEN Raise(r.exc, r.fs, c)
                    ELSE Return("success", r.fs, c, "File copied successfully")
copy_file(f, c, src, dst, fault) == except_Exception(copy_file_try(f, c, src, dst, fault))

\* os.rename(old, new): [exc, fs]
os_rename(f, old, new) ==
    IF old = NoneArg \/ new = NoneArg THEN [exc |-> "TypeError", fs |-> f]
    ELSE IF Kind(f, old) = "none" \/ Kind(f, Parent(new)) # "dir"
    THEN [exc |-> "OSError", fs |-> f]
    ELSE IF old = new THEN [exc |-> "none", fs |-> f]
    ELSE IF IsPrefix(old, new) THEN [exc |-> "OSError", fs |-> f]
    ELSE IF platform = "nt" /\ Kind(f, new) # "none" THEN [exc |-> "OSError", fs |-> f]
    ELSE IF Kind(f, old) = "file" /\ Kind(f, new) = "dir" THEN [exc |-> "OSError", fs |-> f]
    ELSE IF Kind(f, old) = "dir" /\ (Kind(f, new) = "file" \/ Children(f, new) # {})
    THEN [exc |-> "OSError", fs |-> f]
    ELSE [exc |-> "none", fs |-> Graft(Prune(f, old), f, old, new)]

\* shutil.move(src, dst): [exc, fs]
shutil_move(f, src, dst) ==
    IF src = NoneArg THEN [exc |-> "TypeError", fs |-> f]
    ELSE IF Kind(f, dst) = "dir" /\ src = dst THEN os_rename(f, src, dst)
    ELSE LET real == IF Kind(f, dst) = "dir" THEN Append(dst, Base(src)) ELSE dst
             r == os_rename(f, src, real)
         IN IF Kind(f, dst) = "dir" /\ Kind(f, real) # "none"
            THEN [exc |-> "OSError", fs |-> f]
            ELSE IF r.exc = "none" THEN r
            \* os.rename failed: copy2 + unlink for a file, copytree + rmtree for a directory
            ELSE IF Kind(f, src) = "file" /\ Kind(f, real) = "file" /\ Kind(f, Parent(real)) = "dir"
            THEN [exc |-> "none", fs |-> [f EXCEPT ![real] = f[src], ![src] = NoneNode]]
            ELSE [exc |-> "OSError", fs |-> f]

move_file_try(f, c, src, dst, fault) ==
    IF dst = NoneArg THEN Raise("TypeError", f, c)
    ELSE LET d == parent_mkdir(f, dst)
         IN IF d.exc # "none" THEN Raise(d.exc, d.fs, c)
            ELSE IF fault THEN Raise("OSError", d.fs, c)
            ELSE LET r == shutil_move(d.fs, src, dst)
                 IN IF r.exc # "none" THEN Raise(r.exc, r.fs, c)
                    ELSE Return("success", r.fs, c, "File moved successfully")
move_file(f, c, src, dst, fault) == except_Exception(move_file_try(f, c, src, dst, fault))

rename_file_try(f, c, old, new, fault) ==
    IF fault THEN Raise("OSError", f, c)
    ELSE LET r == os_rename(f, old, new)
         IN IF r.exc # "none" THEN Raise(r.exc, r.fs, c)
            ELSE Return("success", r.fs, c, "File renamed successfully")
rename_file(f, c, old, new, fault) == except_Exception(rename_file_try(f, c, old, new, fault))

\* Path(d).glob(pattern) / rglob(pattern): the entries matched; none when d is no directory
Patterns == {"*", "a", "", "None"}
glob(f, d, pattern, recursive, fault) ==
    IF fault \/ Kind(f, d) # "dir" THEN {}
    ELSE {q \in (IF recursive THEN Descendants(f, d) ELSE Children(f, d)) :
              pattern = "*" \/ Base(q) = pattern}

list_files_try(f, c, d, pattern, recursive, fault) ==
    IF d = NoneArg \/ pattern = "None" THEN Raise("TypeError", f, c)
    ELSE IF pattern = "" THEN Raise("ValueError", f, c)
    ELSE LET files == {q \in glob(f, d, pattern, recursive, fault) : Kind(f, q) = "file"}
         IN Return("success", f, c, [count |-> Cardinality(files), entries |-> files])
list_files(f, c, d, pattern, recursive, fault) ==
    except_Exception(list_files_try(f, c, d, pattern, recursive, fault))

list_directories_try(f, c, d, recursive, fault) ==
    IF d = NoneArg THEN Raise("TypeError", f, c)
    ELSE LET dirs == {q \in glob(f, d, "*", recursive, fault) : Kind(f, q) = "dir"}
         IN Return("success", f, c, [count |-> Cardinality(dirs), entries |-> dirs])
list_directories(f, c, d, recursive, fault) ==
    except_Exception(list_directories_try(f, c, d, recursive, fault))

\* os.path.isfile / os.path.isdir answer False when the stat call fails
file_exists_try(f, c, p, fault) ==
    IF p = NoneArg THEN Raise("TypeError", f, c)
    ELSE Return("success", f, c, [exists |-> ~fault /\ Kind(f, p) = "file"])
file_exists(f, c, p, fault) == except_Exception(file_exists_try(f, c, p, fault))

directory_exists_try(f, c, p, fault) ==
    IF p = NoneArg THEN Raise("TypeError", f, c)
    ELSE Return("success", f, c, [exists |-> ~fault /\ Kind(f, p) = "dir"])
directory_exists(f, c, p, fault) == except_Exception(directory_exists_try(f, c, p, fault))

get_file_info_try(f, c, p, fault) ==
    IF p = NoneArg THEN Raise("TypeError", f, c)
    ELSE IF Kind(f, p) = "none" THEN Return("error", f, c, "does not exist")
    ELSE IF fault THEN Raise("OSError", f, c)
    ELSE Return("success", f, c,
                [file_name |-> Base(p), file_size |-> Len(f[p].data),
                 is_file |-> Kind(f, p) = "file", is_directory |-> Kind(f, p) = "dir"])
get_file_info(f, c, p, fault) == except_Exception(get_file_info_try(f, c, p, fault))

delete_directory_try(f, c, p, recursive, fault) ==
    IF p = NoneArg THEN Raise("TypeError", f, c)
    ELSE IF Kind(f, p) = "none" THEN Return("error", f, c, "does not exist")
    ELSE IF \/ fault
            \/ Kind(f, p) = "file"
            \/ platform = "nt" /\ IsPrefix(p, c)
            \/ ~recursive /\ Children(f, p) # {}
    THEN Raise("OSError", f, c)
    ELSE Return("success", Prune(f, p), c,
                IF recursive THEN "Directory and all contents deleted successfully"
                ELSE "Empty directory deleted successfully")
delete_directory(f, c, p, recursive, fault) ==
    except_Exception(delete_directory_try(f, c, p, recursive, fault))

\* shutil.copytree(src, dst): [exc, fs]
copytree(f, src, dst) ==
    IF src = NoneArg \/ dst = NoneArg THEN [exc |-> "TypeError", fs |-> f]
    ELSE IF Kind(f, src) # "dir" \/ Kind(f, dst) # "none" THEN [exc |-> "OSError", fs |-> f]
    ELSE LET m == makedirs(f, dst)
         IN IF m.exc # "none" THEN m
            ELSE [exc |-> "none", fs |-> Graft(m.fs, f, src, dst)]

copy_directory_try(f, c, src, dst, fault) ==
    IF fault THEN Raise("OSError", f, c)
    ELSE LET r == copytree(f, src, dst)
         IN IF r.exc # "none" THEN Raise(r.exc, r.fs, c)
            ELSE Return("success", r.fs, c, "Directory copied successfully")
copy_directory(f, c, src, dst, fault) == except_Exception(copy_directory_try(f, c, src, dst, fault))

\* str.lower() on the modelled alphabet
Lower(ch) == IF ch = "A" THEN "a" ELSE ch
LowerAll(t) == [i \in 1..Len(t) |-> Lower(t[i])]
\* needle in line
Contains(line, needle) ==
    \E i \in 0..(Len(line) - Len(needle)) : SubSeq(line, i + 1, i + Len(needle)) = needle
\* line.strip(): white space removed at both ends
IsSpace(ch) == ch \in {"LF", "CR"}
RECURSIVE strip(_)
strip(t) ==
    IF t # <<>> /\ IsSpace(Head(t)) THEN strip(Tail(t))
    ELSE IF t # <<>> /\ IsSpace(t[Len(t)]) THEN strip(SubSeq(t, 1, Len(t) - 1))
    ELSE t
Needles == {<<"a">>, <<"A">>, <<>>}

search_in_file_try(f, c, p, needle, case_sensitive, fault) ==
    IF p = NoneArg THEN Raise("TypeError", f, c)
    ELSE IF fault \/ Kind(f, p) # "file" THEN Raise("OSError", f, c)
    ELSE LET lines == readlines(decode_read(f[p].data))
             hit(i) == IF case_sensitive THEN Contains(lines[i], needle)
                       ELSE Contains(LowerAll(lines[i]), LowerAll(needle))
             nums == {i \in 1..Len(lines) : hit(i)}
         IN IF needle = NoneArg /\ lines # <<>> THEN Raise("TypeError", f, c)
            ELSE Return("success", f, c,
                        [match_count |-> Cardinality(nums),
                         matches |-> {[line_number |-> i, content |-> strip(lines[i])] : i \in nums}])
search_in_file(f, c, p, needle, case_sensitive, fault) ==
    except_Exception(search_in_file_try(f, c, p, needle, case_sensitive, fault))

\* a Python slice bound: negative counts from the end, then clamped to 0..n
PyIndex(i, n) ==
    IF i < 0 THEN (IF i + n < 0 THEN 0 ELSE i + n) ELSE IF i > n THEN n ELSE i
\* seq[s:e]
PySlice(seq, s, e) ==
    IF PyIndex(s, Len(seq)) >= PyIndex(e, Len(seq)) THEN <<>>
    ELSE SubSeq(seq, PyIndex(s, Len(seq)) + 1, PyIndex(e, Len(seq)))
Min(x, y) == IF x <= y THEN x ELSE y

\* a variant that takes end_line as an exclusive bound
select_lines_exclusive(all_lines, start_line, end_line) ==
    LET total == Len(all_lines)
        start_idx == IF start_line # 0 THEN start_line - 1 ELSE 0
        end_idx == IF end_line # 0 THEN end_line - 1 ELSE total
        sel == PySlice(all_lines, start_idx, end_idx)
    IN [total_lines |-> total, start_line |-> start_idx + 1,
        end_line |-> Min(end_idx, total),
        lines |-> [i \in 1..Len(sel) |-> rstrip_nl(sel[i])]]
\* lines 565-578 of get_file_lines; an omitted bound (None) and 0 take the same branch
select_lines(all_lines, start_line, end_line) ==
    LET total == Len(all_lines)
        start_idx == IF start_line # 0 THEN start_line - 1 ELSE 0
        end_idx == IF end_line # 0 THEN end_line ELSE total
        sel == PySlice(all_lines, start_idx, end_idx)
    IN [total_lines |-> total, start_line |-> start_idx + 1,
        end_line |-> Min(end_idx, total),
        lines |-> [i \in 1..Len(sel) |-> rstrip_nl(sel[i])]]

get_file_lines_try(f, c, p, start_line, end_line, fault) ==
    IF p = NoneArg THEN Raise("TypeError", f, c)
    ELSE IF fault \/ Kind(f, p) # "file" THEN Raise("OSError", f, c)
    ELSE Return("success", f, c,
                select_lines(readlines(decode_read(f[p].data)), start_line, end_line))
get_file_lines(f, c, p, start_line, end_line, fault) ==
    except_Exception(get_file_lines_try(f, c, p, start_line, end_line, fault))

----------------------------------------------------------------------------
(* The tool library as a state machine: one action per tool function,      *)
(* called by the agent runtime with arguments of its choosing.             *)

PathArgs == Paths \cup {NoneArg}
DirArgs == Dirs \cup {NoneArg}
ContentArgs == Contents \cup {NoneArg}
\* "q" is no mode of open()
Modes == {"w", "a", "q"}
PathLists == SeqsUpTo(PathArgs, MaxListLen)

Missing(f, p) == p # NoneArg /\ Kind(f, p) = "none"
\* the list positions whose path does not exist when the call is made
MissingCount(f, list) == Cardinality({i \in 1..Len(list) : Missing(f, list[i])})
\* the list positions whose path is a regular file when the call is made
FileCount(f, list) ==
    Cardinality({i \in 1..Len(list) : list[i] # NoneArg /\ Kind(f, list[i]) = "file"})
\* what held when the call was made
Pre(missing, k, files) == [missing |-> missing, k |-> k, files |-> files]

\* no call is in progress: the runtime has consumed the previous result
Idle == last.op = "none"

\* the runtime calls a tool and the call returns: the filesystem and working
\* directory are as the call left them
Call(op, args, fault, pre, r) ==
    /\ fs' = r.fs
    /\ cwd' = r.cwd
    /\ platform' = platform
    /\ UNCHANGED botvars
    /\ last' = [op |-> op, args |-> args, fault |-> fault, pre |-> pre,
                status |-> r.status, raised |-> r.raised, out |-> r.out]

GetCwd(fault) ==
    Call("get_cwd", <<>>, fault, Pre(FALSE, 0, 0), get_cwd(fs, cwd, fault))

Mkdir(loc, name, fault) ==
    /\ loc = NoneArg \/ name = "None" \/ Append(loc, name) \in Paths
    /\ Call("mkdir", <<loc, name>>, fault,
            Pre(loc # NoneArg /\ name # "None" /\ Missing(fs, Append(loc, name)), 0, 0),
            mkdir(fs, cwd, loc, name, fault))

Chdir(p, fault) ==
    Call("chdir", <<p>>, fault, Pre(Missing(fs, p), 0, 0), chdir(fs, cwd, p, fault))

CreateFile(p, content, fault) ==
    Call("create_file", <<p, content>>, fault, Pre(Missing(fs, p), 0, 0),
         create_file(fs, cwd, p, content, fault))

ReadFile(p, fault) ==
    Call("read_file", <<p>>, fault, Pre(Missing(fs, p), 0, 0), read_file(fs, cwd, p, fault))

WriteFile(p, content, mode, fault) ==
    /\ mode = "a" /\ p # NoneArg /\ content # NoneArg /\ Kind(fs, p) = "file"
           => Len(fs[p].data) + Len(content) <= MaxContentLen
    /\ Call("write_file", <<p, content, mode>>, fault, Pre(Missing(fs, p), 0, 0),
            write_file(fs, cwd, p, content, mode, fault))

DeleteFile(p, fault) ==
    Call("delete_file", <<p>>, fault, Pre(Missing(fs, p), 0, 0), delete_file(fs, cwd, p, fault))

DeleteFiles(list, listIsNone, fault) ==
    Call("delete_files", <<list, listIsNone>>, fault,
         Pre(~listIsNone /\ MissingCount(fs, list) > 0,
             IF listIsNone THEN 0 ELSE MissingCount(fs, list),
             IF listIsNone THEN 0 ELSE FileCount(fs, list)),
         delete_files(fs, cwd, list, listIsNone, fault))

\* where shutil puts src when dst is a directory
IntoDir(f, src, dst) ==
    IF src # NoneArg /\ dst # NoneArg /\ Kind(f, dst) = "dir" /\ src # dst
    THEN Append(dst, Base(src)) ELSE dst

CopyFile(src, dst, fault) ==
    /\ IntoDir(fs, src, dst) \in PathArgs
    /\ Call("copy_file", <<src, dst>>, fault, Pre(Missing(fs, src), 0, 0),
            copy_file(fs, cwd, src, dst, fault))

MoveFile(src, dst, fault) ==
    /\ IntoDir(fs, src, dst) \in PathArgs
    /\ src # NoneArg /\ dst # NoneArg => Fits(fs, src, IntoDir(fs, src, dst))
    /\ Call("move_file", <<src, dst>>, fault, Pre(Missing(fs, src), 0, 0),
            move_file(fs, cwd, src, dst, fault))

RenameFile(old, new, fault) ==
    /\ old # NoneArg /\ new # NoneArg => Fits(fs, old, new)
    /\ Call("rename_file", <<old, new>>, fault, Pre(Missing(fs, old), 0, 0),
            rename_file(fs, cwd, old, new, fault))

ListFiles(d, pattern, recursive, fault) ==
    Call("list_files", <<d, pattern, recursive>>, fault, Pre(Missing(fs, d), 0, 0),
         list_files(fs, cwd, d, pattern, recursive, fault))

ListDirectories(d, recursive, fault) ==
    Call("list_directories", <<d, recursive>>, fault, Pre(Missing(fs, d), 0, 0),
         list_directories(fs, cwd, d, recursive, fault))

FileExists(p, fault) ==
    Call("file_exists", <<p>>, fault, Pre(Missing(fs, p), 0, 0), file_exists(fs, cwd, p, fault))

DirectoryExists(p, fault) ==
    Call("directory_exists", <<p>>, fault, Pre(Missing(fs, p), 0, 0), directory_exists(fs, cwd, p, fault))

GetFileInfo(p, fault) ==
    Call("get_file_info", <<p>>, fault, Pre(Missing(fs, p), 0, 0), get_file_info(fs, cwd, p, fault))

DeleteDirectory(p, recursive, fault) ==
    Call("delete_directory", <<p, recursive>>, fault, Pre(Missing(fs, p), 0, 0),
         delete_directory(fs, cwd, p, recursive, fault))

CopyDirectory(src, dst, fault) ==
    /\ src # NoneArg /\ dst # NoneArg => Fits(fs, src, dst)
    /\ Call("copy_directory", <<src, dst>>, fault, Pre(Missing(fs, src), 0, 0),
            copy_directory(fs, cwd, src, dst, fault))

SearchInFile(p, needle, case_sensitive, fault) ==
    Call("search_in_file", <<p, needle, case_sensitive>>, fault, Pre(Missing(fs, p), 0, 0),
         search_in_file(fs, cwd, p, needle, case_sensitive, fault))

GetFileLines(p, start_line, end_line, fault) ==
    Call("get_file_lines", <<p, start_line, end_line>>, fault, Pre(Missing(fs, p), 0, 0),
         get_file_lines(fs, cwd, p, start_line, end_line, fault))

NoCall == [op |-> "none", args |-> <<>>, fault |-> FALSE, pre |-> Pre(FALSE, 0, 0),
           status |-> "success", raised |-> FALSE, out |-> <<>>]

\* the runtime consumes the result (results are built per call and not kept)
ResultConsumed ==
    /\ ~Idle
    /\ last' = NoCall
    /\ UNCHANGED <<fs, cwd, platform>>
    /\ UNCHANGED botvars

\* the chat front end is not part of the tool library's state machine
BotAbsent ==
    /\ allow_list = {}
    /\ user_contexts = {}
    /\ sessions = <<>>
    /\ tmp_files = {}
    /\ uploads = {}
    /\ pc = "none"
    /\ handled = <<>>
    /\ pool = <<>>

\* a fresh working tree, on either platform, before the first tool call
Init ==
    /\ fs = [p \in Paths |-> NoneNode]
    /\ cwd = Root
    /\ platform \in {"posix", "nt"}
    /\ last = NoCall
    /\ BotAbsent

\* the runtime calls one tool, with arguments of its choosing; tool calls are
\* synchronous: the next one starts after the previous result is consumed
Next ==
    \/ Idle /\ \E fault \in BOOLEAN : GetCwd(fault)
    \/ Idle /\ \E loc \in {Root} \cup {<<x>> : x \in Names} \cup {NoneArg}, name \in Names \cup {"None"},
          fault \in BOOLEAN : Mkdir(loc, name, fault)
    \/ Idle /\ \E p \in DirArgs, fault \in BOOLEAN : Chdir(p, fault)
    \/ Idle /\ \E p \in PathArgs, content \in ContentArgs, fault \in BOOLEAN : CreateFile(p, content, fault)
    \/ Idle /\ \E p \in PathArgs, fault \in BOOLEAN : ReadFile(p, fault)
    \/ Idle /\ \E p \in PathArgs, content \in ContentArgs, mode \in Modes, fault \in BOOLEAN :
          WriteFile(p, content, mode, fault)
    \/ Idle /\ \E p \in PathArgs, fault \in BOOLEAN : DeleteFile(p, fault)
    \/ Idle /\ \E list \in PathLists, listIsNone \in BOOLEAN, fault \in BOOLEAN :
          DeleteFiles(IF listIsNone THEN <<>> ELSE list, listIsNone, fault)
    \/ Idle /\ \E src \in PathArgs, dst \in PathArgs, fault \in BOOLEAN : CopyFile(src, dst, fault)
    \/ Idle /\ \E src \in PathArgs, dst \in PathArgs, fault \in BOOLEAN : MoveFile(src, dst, fault)
    \/ Idle /\ \E old \in PathArgs, new \in PathArgs, fault \in BOOLEAN : RenameFile(old, new, fault)
    \/ Idle /\ \E d \in DirArgs, pattern \in Patterns, recursive \in BOOLEAN, fault \in BOOLEAN :
          ListFiles(d, pattern, recursive, fault)
    \/ Idle /\ \E d \in DirArgs, recursive \in BOOLEAN, fault \in BOOLEAN :
          ListDirectories(d, recursive, fault)
    \/ Idle /\ \E p \in PathArgs, fault \in BOOLEAN : FileExists(p, fault)
    \/ Idle /\ \E p \in PathArgs, fault \in BOOLEAN : DirectoryExists(p, fault)
    \/ Idle /\ \E p \in PathArgs, fault \in BOOLEAN : GetFileInfo(p, fault)
    \/ Idle /\ \E p \in PathArgs, recursive \in BOOLEAN, fault \in BOOLEAN :
          DeleteDirectory(p, recursive, fault)
    \/ Idle /\ \E src \in PathArgs, dst \in PathArgs, fault \in BOOLEAN : CopyDirectory(src, dst, fault)
    \/ Idle /\ \E p \in PathArgs, needle \in Needles \cup {NoneArg}, case_sensitive \in BOOLEAN,
          fault \in BOOLEAN : SearchInFile(p, needle, case_sensitive, fault)
    \/ Idle /\ \E p \in PathArgs, start_line \in 0..2, end_line \in 0..2, fault \in BOOLEAN :
          GetFileLines(p, start_line, end_line, fault)

    \/ ResultConsumed

Spec == Init /\ [][Next]_vars

\* the tree stays a tree
TreeInv == WellFormed(fs)

----------------------------------------------------------------------------
(* get_file_lines on files of up to MaxLines lines.                        *)

\* the longest file, in lines
MaxLines == 10

\* line k holds k letters, so that every line of a file differs from the others
LineBody(k) == [j \in 1..k |-> "a"]
\* a text of T lines, the last one with or without its line terminator
RECURSIVE TextOf(_, _)
TextOf(T, terminated) ==
    IF T = 0 THEN <<>>
    ELSE TextOf(T - 1, TRUE) \o LineBody(T) \o (IF terminated THEN <<"LF">> ELSE <<>>)
LineArgs == (-2)..(MaxLines + 2)

\* the file "a" was written with create_file("a", text)
LinesInit ==
    /\ platform \in {"posix", "nt"}
    /\ \E T \in 0..MaxLines, terminated \in BOOLEAN :
           fs = [p \in Paths |->
                    IF p = <<"a">>
                    THEN FileNode(encode_write(TextOf(T, terminated), LineSep))
                    ELSE NoneNode]
    /\ cwd = Root
    /\ last = NoCall
    /\ BotAbsent

LinesNext ==
    \/ Idle /\ \E start_line \in LineArgs, end_line \in LineArgs :
                   GetFileLines(<<"a">>, start_line, end_line, FALSE)
    \/ ResultConsumed

LinesSpec == LinesInit /\ [][LinesNext]_vars

\* C4: get_file_lines with 1 <= start_line <= end_line and start_line <= T on
\* a readable file of T lines returns success, the lines start_line ..
\* min(end_line, T) (1-indexed, inclusive), start_line as requested and
\* end_line = min(end_line, T).
C4_LineRange ==
    last.op = "get_file_lines" =>
        LET s == last.args[2]
            e == last.args[3]
            T == Len(readlines(decode_read(fs[last.args[1]].data)))
            hi == IF e <= T THEN e ELSE T
        IN 1 <= s /\ s <= e /\ s <= T =>
               /\ last.status = "success"
               /\ last.out.total_lines = T
               /\ last.out.start_line = s
               /\ last.out.end_line = hi
               /\ Len(last.out.lines) = hi - s + 1
               /\ \A i \in 1..(hi - s + 1) : last.out.lines[i] = LineBody(s + i - 1)
\* start 2, end 4 on a file of 10 lines: 3 lines
C4_Witness ==
    /\ last.op = "get_file_lines"
    /\ last.args[2] = 2
    /\ last.args[3] = 4
    /\ last.status = "success"
    /\ last.out.total_lines = 10
    /\ Len(last.out.lines) = 3
    /\ last.out.lines[1] = LineBody(2)

----------------------------------------------------------------------------
(* The chat front end, telegram_bot.py.                                    *)

\* the most turns a session holds
MaxTurns == 2
\* Telegram's message limit, `if len(full_message) > 4096`
TelegramLimit == 4096
\* len("I processed your request but couldn't generate a response. Please try again.")
FallbackLen == 76

Chats == {1, 2}
\* the configurations of AUTHORIZED_CHAT_IDS: none, one chat, two chats
AllowLists == {{}, {1}, {1, 2}}
DocNames == {"doc.txt"}
\* lengths of the joined final text and of the joined tool messages of a run
RespLens == {0, TelegramLimit - 3, TelegramLimit - 2, TelegramLimit, TelegramLimit + 1}
ExtraLens == {0, 1}

\* a variant that admits every chat
is_authorized_everyone(chat_id) == chat_id \in Chats
\* return str(chat_id) in AUTHORIZED_CHAT_IDS or not AUTHORIZED_CHAT_IDS
is_authorized(chat_id) == chat_id \in allow_list \/ allow_list = {}

NoSession == [exists |-> FALSE, turns |-> 0]
\* initialize_sessions(): one session and one user_contexts entry per listed chat
initialize_sessions(list) ==
    [contexts |-> list,
     sessions |-> [c \in Chats |-> IF c \in list THEN [exists |-> TRUE, turns |-> 0] ELSE NoSession]]

\* one call to the transport, the runtime or the operating system, and whether it returned
Did(call, ok) == [call |-> call, ok |-> ok]
Rejection == "reply_to: You are not authorized to use this bot."
Names_of(calls) == {calls[i].call : i \in 1..Len(calls)}
Count(calls, call) == Cardinality({i \in 1..Len(calls) : calls[i].call = call})
Delivered(calls, call) == \E i \in 1..Len(calls) : calls[i].call = call /\ calls[i].ok

\* a variant that sends a reply of exactly the limit as a document too
too_long_from_limit(n) == n >= TelegramLimit
\* len(full_message) > 4096
too_long(n) == n > TelegramLimit

\* lines 275-282: the length of full_message, from the length of the joined
\* text parts and the length of the joined tool messages
full_message_len(resp, extra) ==
    LET agent_response == IF resp = 0 /\ extra = 0 THEN FallbackLen ELSE resp
    IN IF extra = 0 THEN agent_response
       ELSE IF agent_response = 0 THEN extra
       ELSE agent_response + 2 + extra

\* the stores and files as a handler finds them
Stores == [user_contexts |-> user_contexts, sessions |-> sessions,
           tmp_files |-> tmp_files, uploads |-> uploads, fs |-> fs]

\* what bot.polling raises into start_bot: a connection error of the
\* transport, or another exception (one that left a handler among them)
PollingErrors == {"ConnectionError", "Exception"}

\* a loop that catches connection errors only
start_bot_except_connection_only(error) ==
    IF error = "ConnectionError" THEN "sleeping" ELSE "exited"
\* lines 347-354 of start_bot: `except ConnectionError` and `except Exception`
\* both print, sleep 5 seconds and stay in the while loop
start_bot_except(error) ==
    IF error = "ConnectionError" THEN "sleeping"
    ELSE IF error = "Exception" THEN "sleeping"
    ELSE "exited"

\* the handler returns (or an exception leaves it): telebot goes on polling,
\* or hands the exception to start_bot, which sleeps and polls again
Handled(handler, chat, calls, tools, escaped, len, propagates) ==
    /\ escaped \/ ~propagates
    /\ handled' = [handler |-> handler, chat |-> chat, authorized |-> is_authorized(chat),
                   calls |-> calls, tools |-> tools, escaped |-> escaped, len |-> len,
                   before |-> Stores]
    /\ pc' = IF escaped /\ propagates THEN start_bot_except("Exception") ELSE "returned"
    /\ UNCHANGED <<allow_list, cwd, platform, last, pool>>

\* the reply every handler sends to a chat that is not authorized
Unauthorized(handler, chat, replyOk, propagates) ==
    /\ ~is_authorized(chat)
    /\ Handled(handler, chat, <<Did(Rejection, replyOk)>>, 0, ~replyOk, 0, propagates)
    /\ UNCHANGED <<user_contexts, sessions, tmp_files, uploads, fs>>

\* /start: the welcome message, then a notice to every other listed chat
\* (a failure of a notice is swallowed)
Start(chat, replyOk, noticeOk, propagates) ==
    /\ pc = "polling"
    /\ \/ Unauthorized("start", chat, replyOk, propagates)
       \/ /\ is_authorized(chat)
          /\ replyOk \/ noticeOk
          /\ LET others == allow_list \ {chat}
                 \* the notices go out one per other listed chat (at most one here)
                 notices == IF replyOk /\ others # {}
                            THEN <<Did("send_message: New User Activity", noticeOk)>>
                            ELSE <<>>
             IN Handled("start", chat, <<Did("reply_to: welcome", replyOk)>> \o notices,
                        0, ~replyOk, 0, propagates)
          /\ UNCHANGED <<user_contexts, sessions, tmp_files, uploads, fs>>

\* /help
HelpCommand(chat, replyOk, propagates) ==
    /\ pc = "polling"
    /\ \/ Unauthorized("help_command", chat, replyOk, propagates)
       \/ /\ is_authorized(chat)
          /\ Handled("help_command", chat, <<Did("reply_to: help", replyOk)>>,
                     0, ~replyOk, 0, propagates)
          /\ UNCHANGED <<user_contexts, sessions, tmp_files, uploads, fs>>

\* /clear: the chat's entry leaves user_contexts; session_service is not touched
ClearContext(chat, replyOk, propagates) ==
    /\ pc = "polling"
    /\ \/ Unauthorized("clear_context", chat, replyOk, propagates)
       \/ /\ is_authorized(chat)
          /\ user_contexts' = user_contexts \ {chat}
          /\ Handled("clear_context", chat, <<Did("reply_to: context cleared", replyOk)>>,
                     0, ~replyOk, 0, propagates)
          /\ UNCHANGED <<sessions, tmp_files, uploads, fs>>

\* /info: os.getcwd() and os.getlogin() may fail; the failure is replied
SystemInfo(chat, osOk, replyOk, errReplyOk, propagates) ==
    /\ pc = "polling"
    /\ \/ Unauthorized("system_info", chat, replyOk, propagates) /\ osOk /\ errReplyOk
       \/ /\ is_authorized(chat)
          /\ osOk \/ replyOk
          /\ (osOk /\ replyOk) => errReplyOk
          /\ LET calls == IF osOk
                          THEN <<Did("reply_to: system information", replyOk)>>
                          ELSE <<>>
                 failed == ~osOk \/ ~replyOk
             IN Handled("system_info", chat,
                        IF failed THEN Append(calls, Did("reply_to: error", errReplyOk)) ELSE calls,
                        0, failed /\ ~errReplyOk, 0, propagates)
          /\ UNCHANGED <<user_contexts, sessions, tmp_files, uploads, fs>>

\* the calls handle_message makes, in order, for a reply of length len
MessageSteps(len) ==
    IF too_long(len)
    THEN <<"send_chat_action", "reply_to: processing", "runner.run",
           "open temp file", "send_document", "os.remove">>
    ELSE <<"send_chat_action", "reply_to: processing", "runner.run", "send_message">>

\* the calls made when the call named `fault` raises ("none": no call raises)
RECURSIVE CallsUntil(_, _)
CallsUntil(steps, fault) ==
    IF steps = <<>> THEN <<>>
    ELSE IF Head(steps) = fault THEN <<Did(fault, FALSE)>>
    ELSE <<Did(Head(steps), TRUE)>> \o CallsUntil(Tail(steps), fault)

\* lines 222-302 of handle_message, for an authorized chat: send_chat_action
\* stands before the try block; the except clause replies with the error
handle_message(chat, resp, extra, fault, errReplyOk) ==
    LET len == full_message_len(resp, extra)
        calls == CallsUntil(MessageSteps(len), fault)
    IN [calls |-> IF fault \in {"none", "send_chat_action"} THEN calls
                  ELSE Append(calls, Did("reply_to: error", errReplyOk)),
        escaped |-> fault = "send_chat_action" \/ (fault # "none" /\ ~errReplyOk),
        len |-> len]

\* a free-text message.  runner.run works on the session "session_<chat>" of
\* session_service; without one it raises or yields no event.  With one, the
\* agent may invoke a tool of the library (here mkdir("a")) before it answers.
HandleMessage(chat, resp, extra, fault, tool, errReplyOk, propagates) ==
    /\ pc = "polling"
    /\ \/ Unauthorized("handle_message", chat, errReplyOk, propagates)
             /\ resp = 0 /\ extra = 0 /\ fault = "none" /\ ~tool
       \/ /\ is_authorized(chat)
          /\ fault \in {"none"} \cup Names_of(CallsUntil(MessageSteps(full_message_len(resp, extra)), "none"))
          /\ fault = "none" => errReplyOk
          /\ ~sessions[chat].exists => fault \in {"send_chat_action", "reply_to: processing", "runner.run"}
                                          \/ (resp = 0 /\ extra = 0)
          /\ sessions[chat].turns < MaxTurns
          /\ LET h == handle_message(chat, resp, extra, fault, errReplyOk)
                 ran == Delivered(h.calls, "runner.run") \/ fault = "runner.run"
             IN /\ tool => ran /\ sessions[chat].exists
                /\ Handled("handle_message", chat, h.calls, IF tool THEN 1 ELSE 0,
                           h.escaped, h.len, propagates)
                /\ fs' = IF tool THEN mkdir(fs, cwd, Root, "a", FALSE).fs ELSE fs
                /\ sessions' = IF ran /\ sessions[chat].exists
                               THEN [sessions EXCEPT ![chat].turns = @ + 1]
                               ELSE sessions
                /\ tmp_files' = IF Delivered(h.calls, "open temp file")
                                   /\ ~Delivered(h.calls, "os.remove")
                                THEN tmp_files \cup {chat}
                                ELSE tmp_files
          /\ UNCHANGED <<user_contexts, uploads>>

\* a document upload: saved under its own name in the working directory
HandleDocument(chat, name, fault, errReplyOk, propagates) ==
    /\ pc = "polling"
    /\ \/ Unauthorized("handle_document", chat, errReplyOk, propagates) /\ fault = "none"
       \/ /\ is_authorized(chat)
          /\ fault = "none" => errReplyOk
          /\ LET steps == <<"reply_to: uploading", "get_file", "download_file",
                            "open upload", "reply_to: uploaded">>
                 calls == CallsUntil(steps, fault)
             IN /\ fault \in {"none"} \cup Names_of(CallsUntil(steps, "none"))
                /\ Handled("handle_document", chat,
                           IF fault = "none" THEN calls
                           ELSE Append(calls, Did("reply_to: error", errReplyOk)),
                           0, fault # "none" /\ ~errReplyOk, 0, propagates)
                /\ uploads' = IF Delivered(calls, "open upload") THEN uploads \cup {name}
                              ELSE uploads
          /\ UNCHANGED <<user_contexts, sessions, tmp_files, fs>>

NotHandled == [handler |-> "none", chat |-> 0, authorized |-> FALSE, calls |-> <<>>,
               tools |-> 0, escaped |-> FALSE, len |-> 0,
               before |-> [user_contexts |-> {}, sessions |-> <<>>, tmp_files |-> {},
                           uploads |-> {}, fs |-> <<>>]]

\* the handler has returned: telebot takes the next update
NextUpdate ==
    /\ pc = "returned"
    /\ pc' = "polling"
    /\ handled' = NotHandled
    /\ UNCHANGED <<allow_list, user_contexts, sessions, tmp_files, uploads, fsvars, pool>>

\* bot.polling raises (a connection error, or any other exception)
PollingRaises(error) ==
    /\ pc = "polling"
    /\ pc' = start_bot_except(error)
    /\ UNCHANGED <<allow_list, user_contexts, sessions, tmp_files, uploads, handled, fsvars, pool>>

\* start_bot: after time.sleep(5) the loop calls bot.polling again
PollAgain ==
    /\ pc = "sleeping"
    /\ pc' = "polling"
    /\ handled' = NotHandled
    /\ UNCHANGED <<allow_list, user_contexts, sessions, tmp_files, uploads, fsvars, pool>>

\* the module is loaded with one of the allow-lists and start_bot is polling
BotInit ==
    /\ allow_list \in AllowLists
    /\ user_contexts = initialize_sessions(allow_list).contexts
    /\ sessions = initialize_sessions(allow_list).sessions
    /\ tmp_files = {}
    /\ uploads = {}
    /\ pc = "polling"
    /\ handled = NotHandled
    /\ pool = <<>>
    /\ fs = [p \in Paths |-> NoneNode]
    /\ cwd = Root
    /\ platform = "posix"
    /\ last = NoCall

StepFaults ==
    {"none", "send_chat_action", "reply_to: processing", "runner.run", "open temp file",
     "send_document", "os.remove", "send_message"}
UploadFaults ==
    {"none", "reply_to: uploading", "get_file", "download_file", "open upload",
     "reply_to: uploaded"}

BotNext ==
    \/ \E chat \in Chats, replyOk \in BOOLEAN, noticeOk \in BOOLEAN, propagates \in BOOLEAN :
          Start(chat, replyOk, noticeOk, propagates)
    \/ \E chat \in Chats, replyOk \in BOOLEAN, propagates \in BOOLEAN :
          HelpCommand(chat, replyOk, propagates)
    \/ \E chat \in Chats, replyOk \in BOOLEAN, propagates \in BOOLEAN :
          ClearContext(chat, replyOk, propagates)
    \/ \E chat \in Chats, osOk \in BOOLEAN, replyOk \in BOOLEAN, errReplyOk \in BOOLEAN,
          propagates \in BOOLEAN : SystemInfo(chat, osOk, replyOk, errReplyOk, propagates)
    \/ \E chat \in Chats, resp \in RespLens, extra \in ExtraLens, fault \in StepFaults,
          tool \in BOOLEAN, errReplyOk \in BOOLEAN, propagates \in BOOLEAN :
          HandleMessage(chat, resp, extra, fault, tool, errReplyOk, propagates)
    \/ \E chat \in Chats, name \in DocNames, fault \in UploadFaults, errReplyOk \in BOOLEAN,
          propagates \in BOOLEAN : HandleDocument(chat, name, fault, errReplyOk, propagates)
    \/ NextUpdate
    \/ \E error \in PollingErrors : PollingRaises(error)
    \/ PollAgain

BotSpec == BotInit /\ [][BotNext]_vars

\* time.sleep(5) returns
FairBotSpec == BotSpec /\ WF_vars(PollAgain)

----------------------------------------------------------------------------
(* How bot.polling runs the handlers.  `bot = telebot.TeleBot(BOT_TOKEN)`   *)
(* leaves threaded and num_threads at the library's defaults, True and 2:   *)
(* the polling thread takes the updates in order and puts one task per      *)
(* message on the queue of a pool of two worker threads, which run them.    *)

\* the most messages received in a run of the model
MaxMessages == 3
\* the worker threads of TeleBot(BOT_TOKEN)
NumThreads == 2

Workers == 1..NumThreads
\* the handlers whose runs are followed here
PoolHandlers == {"handle_message", "clear_context"}
NoTask == [id |-> 0, handler |-> "none"]
Running == {w \in Workers : pool.running[w] # NoTask}

\* start_bot has called bot.polling; nothing has been received
PoolInit ==
    /\ allow_list = {}
    /\ user_contexts = initialize_sessions({}).contexts
    /\ sessions = initialize_sessions({}).sessions
    /\ tmp_files = {}
    /\ uploads = {}
    /\ pc = "polling"
    /\ handled = NotHandled
    /\ pool = [received |-> 0, tasks |-> <<>>, running |-> [w \in Workers |-> NoTask],
               returned |-> {}]
    /\ fs = [p \in Paths |-> NoneNode]
    /\ cwd = Root
    /\ platform = "posix"
    /\ last = NoCall

\* the polling thread gets a message and queues the call of its handler
Receive(handler) ==
    /\ pc = "polling"
    /\ pool.received < MaxMessages
    /\ pool' = [pool EXCEPT !.received = @ + 1,
                            !.tasks = Append(@, [id |-> pool.received + 1, handler |-> handler])]
    /\ UNCHANGED <<allow_list, user_contexts, sessions, tmp_files, uploads, pc, handled, fsvars>>

\* an idle worker thread takes the oldest task and enters the handler
WorkerTakes(w) ==
    /\ pool.running[w] = NoTask
    /\ pool.tasks # <<>>
    /\ pool' = [pool EXCEPT !.running[w] = Head(pool.tasks), !.tasks = Tail(@)]
    /\ UNCHANGED <<allow_list, user_contexts, sessions, tmp_files, uploads, pc, handled, fsvars>>

\* the handler a worker thread runs returns
HandlerReturns(w) ==
    /\ pool.running[w] # NoTask
    /\ pool' = [pool EXCEPT !.running[w] = NoTask,
                            !.returned = @ \cup {pool.running[w].id}]
    /\ UNCHANGED <<allow_list, user_contexts, sessions, tmp_files, uploads, pc, handled, fsvars>>

PoolNext ==
    \/ \E handler \in PoolHandlers : Receive(handler)
    \/ \E w \in Workers : WorkerTakes(w)
    \/ \E w \in Workers : HandlerReturns(w)

PoolSpec == PoolInit /\ [][PoolNext]_vars

----------------------------------------------------------------------------
(* handle_message's reading of the events of a run, lines 245-276.          *)

\* the most events of a run
MaxEvents == 2

TextPart(t) == [text |-> t, function_call |-> "", function_response |-> ""]
\* the parts of an event: text (one needing a trim, one of white space only),
\* a tool call, a tool result, and a part with both a text and a tool call
EventParts ==
    {TextPart(<<"a">>), TextPart(<<"LF", "b", "LF">>), TextPart(<<"LF">>),
     [text |-> <<>>, function_call |-> "mkdir", function_response |-> ""],
     [text |-> <<>>, function_call |-> "", function_response |-> "{'status': 'success'}"],
     [text |-> <<"c">>, function_call |-> "chdir", function_response |-> ""]}
\* the parts of one event: none, one, or one followed by a text or a tool result
PartLists ==
    {<<>>} \cup {<<x>> : x \in EventParts}
        \cup {<<x, y>> : x \in EventParts,
                         y \in {TextPart(<<"a">>),
                                [text |-> <<>>, function_call |-> "",
                                 function_response |-> "{'status': 'success'}"]}}
\* an event: whether it has content, what is_final_response() says, its parts
Events ==
    {[content |-> TRUE, final |-> b, parts |-> ps] : b \in BOOLEAN, ps \in PartLists}
        \cup {[content |-> FALSE, final |-> b, parts |-> <<>>] : b \in BOOLEAN}
EventLists == SeqsUpTo(Events, MaxEvents)

\* f"Tool call: {function_call.name}\n{args_text}"
Preview(function_call) == <<"Tool call: ", function_call>>
\* str(getattr(function_response, 'response', ''))
Payload(function_response) == <<function_response>>

\* lines 252-259, the parts of a final event: a text, else a tool result
RECURSIVE final_parts(_, _)
final_parts(parts, acc) ==
    IF parts = <<>> THEN acc
    ELSE LET part == Head(parts)
         IN final_parts(Tail(parts),
                IF part.text # <<>>
                THEN [acc EXCEPT !.text_parts = Append(@, part.text)]
                ELSE IF part.function_response # ""
                THEN [acc EXCEPT !.tool_messages = Append(@, Payload(part.function_response))]
                ELSE acc)

\* a reading of the other events that keeps tool calls and tool results and no text
RECURSIVE intermediate_parts_tools_only(_, _)
intermediate_parts_tools_only(parts, acc) ==
    IF parts = <<>> THEN acc
    ELSE LET part == Head(parts)
         IN intermediate_parts_tools_only(Tail(parts),
                IF part.function_call # ""
                THEN [acc EXCEPT !.tool_messages = Append(@, Preview(part.function_call))]
                ELSE IF part.function_response # ""
                THEN [acc EXCEPT !.tool_messages = Append(@, Payload(part.function_response))]
                ELSE acc)

\* lines 260-273, the parts of any other event: a tool call, else a text
RECURSIVE intermediate_parts(_, _)
intermediate_parts(parts, acc) ==
    IF parts = <<>> THEN acc
    ELSE LET part == Head(parts)
         IN intermediate_parts(Tail(parts),
                IF part.function_call # ""
                THEN [acc EXCEPT !.tool_messages = Append(@, Preview(part.function_call))]
                ELSE IF part.text # <<>>
                THEN [acc EXCEPT !.text_parts = Append(@, part.text)]
                ELSE acc)

\* lines 248-273: for event in events
RECURSIVE consume(_, _)
consume(events, acc) ==
    IF events = <<>> THEN acc
    ELSE LET event == Head(events)
         IN consume(Tail(events),
                IF ~event.content THEN acc
                ELSE IF event.final THEN final_parts(event.parts, acc)
                ELSE intermediate_parts(event.parts, acc))

\* sep.join(strings)
RECURSIVE join(_, _)
join(sep, strings) ==
    IF strings = <<>> THEN <<>>
    ELSE IF Len(strings) = 1 THEN strings[1]
    ELSE strings[1] \o sep \o join(sep, Tail(strings))

\* part.strip() for part in text_parts if part and part.strip()
RECURSIVE stripped(_)
stripped(text_parts) ==
    IF text_parts = <<>> THEN <<>>
    ELSE (IF strip(Head(text_parts)) # <<>> THEN <<strip(Head(text_parts))>> ELSE <<>>)
             \o stripped(Tail(text_parts))

\* lines 246-276: text_parts, tool_messages, agent_response and extra_info
collect(events) ==
    LET acc == consume(events, [text_parts |-> <<>>, tool_messages |-> <<>>])
    IN [text_parts |-> acc.text_parts,
        tool_messages |-> acc.tool_messages,
        agent_response |-> join(<<"LF">>, stripped(acc.text_parts)),
        extra_info |-> join(<<"LF", "LF">>, acc.tool_messages)]

\* handle_message reads the events runner.run has yielded
Collect(events) ==
    Call("handle_message: events", <<events>>, FALSE, Pre(FALSE, 0, 0),
         [status |-> "success", raised |-> FALSE, fs |-> fs, cwd |-> cwd, out |-> collect(events)])

EventsInit == Init /\ platform = "posix"

EventsNext ==
    \/ Idle /\ \E events \in EventLists : Collect(events)
    \/ ResultConsumed

EventsSpec == EventsInit /\ [][EventsNext]_vars

----------------------------------------------------------------------------
(* Properties of the tool library.                                         *)

\* C1: every tool function returns a mapping whose status is success, error
\* or partial, and never lets a raised failure reach its caller, whatever the
\* arguments and the filesystem.
C1_StatusResultAlways ==
    ~Idle => last.status \in Statuses /\ ~last.raised
\* a call with an argument of the wrong type came back as an error result
C1_Witness ==
    /\ last.op = "directory_exists"
    /\ last.args = <<NoneArg>>
    /\ last.status = "error"
    /\ ~last.raised

\* the operations C2 names
C2Named ==
    {"file_exists", "directory_exists", "list_files", "list_directories", "delete_files",
     "read_file", "delete_file", "get_file_info", "delete_directory", "copy_file",
     "move_file", "rename_file", "chdir"}
\* the operations that report a missing path (the source, where there are two) as an error
ErrorOnMissing ==
    {"read_file", "delete_file", "get_file_info", "delete_directory", "copy_file", "move_file",
     "rename_file", "chdir", "copy_directory", "search_in_file", "get_file_lines"}

NoRepeat(list) == \A i, j \in 1..Len(list) : list[i] = list[j] => i = j

\* C3 as stated: with K of the N paths nonexistent, deleted_count = N-K,
\* failed_count = K, status partial iff 0 < K < N and success iff K = 0.
C3_AsStated ==
    last.op = "delete_files" /\ ~last.args[2] =>
        LET N == Len(last.args[1])
            K == last.pre.k
        IN /\ last.status \in {"success", "partial"}
           /\ last.out.deleted_count = N - K
           /\ last.out.failed_count = K
           /\ last.status = "partial" <=> (0 < K /\ K < N)
           /\ last.status = "success" <=> K = 0

\* C3, amended: deleted_count + failed_count = N, status is partial iff
\* failed_count > 0 (also when every path fails) and success iff
\* failed_count = 0; and for N distinct paths, each a removable regular file
\* or nonexistent, K of them nonexistent: deleted_count = N-K, failed_count = K.
C3_DeleteFilesCounts ==
    last.op = "delete_files" /\ ~last.args[2] =>
        LET N == Len(last.args[1])
            K == last.pre.k
        IN /\ last.status \in {"success", "partial"}
           /\ last.out.deleted_count + last.out.failed_count = N
           /\ last.out.failed_count >= K
           /\ last.status = "partial" <=> last.out.failed_count > 0
           /\ last.status = "success" <=> last.out.failed_count = 0
           /\ NoRepeat(last.args[1]) /\ last.pre.files + K = N /\ ~last.fault =>
                  /\ last.out.deleted_count = N - K
                  /\ last.out.failed_count = K
\* two paths, neither exists: nothing deleted, both failed, status partial
C3_Witness ==
    /\ last.op = "delete_files"
    /\ ~last.args[2]
    /\ Len(last.args[1]) = 2
    /\ last.pre.k = 2
    /\ last.status = "partial"
    /\ last.out.failed_count = 2

\* C5: after create_file(path, content) returned success, read_file(path)
\* returns success with content equal to the content written.
C5_RoundTrip ==
    last.op = "create_file" /\ last.status = "success" =>
        LET r == read_file(fs, cwd, last.args[1], FALSE)
        IN r.status = "success" /\ r.out.content = last.args[2]

\* C6: mkdir is idempotent: after a successful mkdir, the same call again
\* returns success and leaves the filesystem as the first call left it; a
\* call that the operating system did not refuse is repeated with the same
\* status and no further change.
C6_MkdirIdempotent ==
    last.op = "mkdir" =>
        LET again == mkdir(fs, cwd, last.args[1], last.args[2], FALSE)
        IN /\ last.status = "success" =>
                  /\ again.status = "success"
                  /\ again.fs = fs
                  /\ Kind(fs, Append(last.args[1], last.args[2])) = "dir"
           /\ ~last.fault => again.status = last.status /\ again.fs = fs
\* mkdir succeeded on a directory that already held an entry
C6_Witness ==
    /\ last.op = "mkdir"
    /\ last.status = "success"
    /\ ~last.pre.missing
    /\ Children(fs, Append(last.args[1], last.args[2])) # {}

----------------------------------------------------------------------------
(* Properties of the chat front end, checked under BotSpec.                *)

\* the chat of the handled message is not authorized: the allow-list is not
\* empty and does not hold it
NotListed == handled.handler # "none" /\ allow_list # {} /\ handled.chat \notin allow_list

\* C7: whatever a chat that is not authorized sends (free text, /start, /help,
\* /clear, /info or a document), the handler makes one call, the reply with
\* the fixed rejection text, and returns: the agent runtime is not run, no
\* tool is invoked, no file is written and the session stores are unchanged.
C7_UnauthorizedRejected ==
    NotListed =>
        /\ Len(handled.calls) = 1
        /\ handled.calls[1].call = Rejection
        /\ handled.tools = 0
        /\ Stores = handled.before

C7_Witness ==
    /\ NotListed
    /\ handled.handler = "handle_message"
    /\ handled.calls = <<Did(Rejection, TRUE)>>
    /\ handled.before.sessions[1].turns > 0

\* a free-text message of an authorized chat handled without any fault
Answered ==
    /\ handled.handler = "handle_message"
    /\ handled.authorized
    /\ \A i \in 1..Len(handled.calls) : handled.calls[i].ok

\* C8: handle_message sends a reply longer than 4096 characters as a document
\* and never as a text message, a reply of at most 4096 characters as one
\* text message and never as a document; a message handled without fault
\* uses exactly one of the two.
C8_DeliveryMode ==
    handled.handler = "handle_message" /\ handled.authorized =>
        /\ handled.len > TelegramLimit => Count(handled.calls, "send_message") = 0
        /\ handled.len <= TelegramLimit => Count(handled.calls, "send_document") = 0
        /\ Answered =>
              /\ Count(handled.calls, "send_message") + Count(handled.calls, "send_document") = 1
              /\ Count(handled.calls, "send_document") = 1 <=> handled.len > TelegramLimit

C8_Witness ==
    /\ Answered
    /\ handled.len = TelegramLimit + 1
    /\ Delivered(handled.calls, "send_document")

C8_WitnessText ==
    /\ Answered
    /\ handled.len = TelegramLimit
    /\ Delivered(handled.calls, "send_message")

\* the handled message is a free-text message of a listed chat whose entry
\* /clear has removed (only clear_context removes the entry of a listed chat),
\* and the agent runtime has been run for it
AfterClear ==
    /\ handled.handler = "handle_message"
    /\ handled.chat \in allow_list
    /\ handled.chat \notin handled.before.user_contexts
    /\ \E i \in 1..Len(handled.calls) : handled.calls[i].call = "runner.run"

\* C9, as stated: after an authorized /clear the chat has no entry in the
\* session store, and the next free-text message of the chat creates the entry
\* again and is handled against a new session, one without the turns of the
\* session that existed before /clear.
C9_AsStated ==
    /\ handled.handler = "clear_context" /\ handled.authorized
          => handled.chat \notin user_contexts
    /\ AfterClear =>
          /\ handled.chat \in user_contexts
          /\ handled.before.sessions[handled.chat].turns = 0

\* what the code does instead: the entry stays removed and the message is
\* appended to the session made at startup
C9_SessionSurvivesClear ==
    AfterClear =>
        /\ handled.chat \notin user_contexts
        /\ sessions[handled.chat].exists
        /\ sessions[handled.chat].turns = handled.before.sessions[handled.chat].turns + 1

C9_Reached ==
    /\ AfterClear
    /\ handled.before.sessions[handled.chat].turns > 0

\* the calls of handle_message that submit the message to the agent runtime,
\* consume its events, and format and send the reply
ReplySteps == {"runner.run", "open temp file", "send_document", "os.remove", "send_message"}

\* C10, as stated: a fault raised while an authorized free-text message is
\* handled (in submitting it to the agent runtime, consuming the events,
\* formatting or sending the reply) is caught in handle_message and reported
\* to the chat as an error reply; no exception leaves handle_message.
C10_AsStated ==
    /\ handled.handler = "handle_message"
    /\ handled.authorized
    /\ \E i \in 1..Len(handled.calls) :
          ~handled.calls[i].ok /\ handled.calls[i].call \in ReplySteps
    => /\ ~handled.escaped
       /\ Delivered(handled.calls, "reply_to: error")

----------------------------------------------------------------------------
(* Properties of the dispatch of handlers, checked under PoolSpec.         *)

\* C11, as stated: messages are handled one at a time in receipt order: never
\* are two handlers running at once, and no handler starts before the handler
\* of every earlier message has returned.
C11_AsStated ==
    /\ Cardinality(Running) <= 1
    /\ \A w \in Workers : \A id \in 1..(pool.running[w].id - 1) : id \in pool.returned

\* what holds: the handlers are entered in receipt order, at most NumThreads
\* of them run at once
C11_StartedInOrder ==
    /\ Cardinality(Running) <= NumThreads
    /\ \A i \in 1..Len(pool.tasks) : \A w \in Running : pool.running[w].id < pool.tasks[i].id
    /\ \A i \in 1..Len(pool.tasks) : \A j \in 1..Len(pool.tasks) :
          i < j => pool.tasks[i].id < pool.tasks[j].id

\* two agent runs at once, the later message's handler entered while the
\* earlier one has not returned
C11_TwoAgentRuns ==
    \E v \in Workers, w \in Workers :
          /\ v # w
          /\ pool.running[v].handler = "handle_message"
          /\ pool.running[w].handler = "handle_message"

----------------------------------------------------------------------------
(* Properties of the reading of the events, checked under EventsSpec.      *)

\* the parts of the events that have content, in emission order, each with
\* what is_final_response() says of its event
RECURSIVE Emitted(_)
Emitted(events) ==
    IF events = <<>> THEN <<>>
    ELSE (IF Head(events).content
          THEN [i \in 1..Len(Head(events).parts) |->
                   [part |-> Head(events).parts[i], final |-> Head(events).final]]
          ELSE <<>>) \o Emitted(Tail(events))

\* the items whose flag is set, in order, from position k on
RECURSIVE KeptFrom(_, _, _)
KeptFrom(k, keep, items) ==
    IF k > Len(items) THEN <<>>
    ELSE (IF keep[k] THEN <<items[k]>> ELSE <<>>) \o KeptFrom(k + 1, keep, items)
Kept(keep, items) == KeptFrom(1, keep, items)

TextOfPart(x) == strip(x.part.text)
ToolTextOfPart(x) ==
    IF x.part.function_call # "" THEN Preview(x.part.function_call)
    ELSE Payload(x.part.function_response)

\* C12, as stated: the primary reply is the non-empty trimmed texts of the
\* final event joined, and the extra info is the tool-call previews and the
\* tool-result payloads of the intermediate events in emission order; text of
\* intermediate events is not in the primary reply and every tool result of
\* an intermediate event is in the extra info.
C12_AsStated ==
    last.op = "handle_message: events" =>
        LET emitted == Emitted(last.args[1])
            FinalText(x) == x.final /\ strip(x.part.text) # <<>>
            IntermediateTool(x) ==
                ~x.final /\ (x.part.function_call # "" \/ x.part.function_response # "")
            Each(F(_)) == [i \in 1..Len(emitted) |-> F(emitted[i])]
        IN /\ last.out.agent_response = join(<<"LF">>, Kept(Each(FinalText), Each(TextOfPart)))
           /\ last.out.extra_info
                 = join(<<"LF", "LF">>, Kept(Each(IntermediateTool), Each(ToolTextOfPart)))

\* C12: the primary reply is the non-empty trimmed texts, joined by newlines
\* in emission order, of the parts of final events and of the parts without a
\* tool call of intermediate events; the extra info is, joined by blank lines
\* in emission order, the previews of the tool calls of intermediate events
\* and the tool results of the parts without text of final events.  A tool
\* result of an intermediate event is not in the extra info.
C12_EventsCollected ==
    last.op = "handle_message: events" =>
        LET emitted == Emitted(last.args[1])
            ReplyText(x) ==
                /\ strip(x.part.text) # <<>>
                /\ x.final \/ x.part.function_call = ""
            ToolText(x) ==
                \/ ~x.final /\ x.part.function_call # ""
                \/ x.final /\ x.part.text = <<>> /\ x.part.function_response # ""
            Each(F(_)) == [i \in 1..Len(emitted) |-> F(emitted[i])]
        IN /\ last.out.agent_response = join(<<"LF">>, Kept(Each(ReplyText), Each(TextOfPart)))
           /\ last.out.extra_info = join(<<"LF", "LF">>, Kept(Each(ToolText), Each(ToolTextOfPart)))

\* an intermediate event with a text and a tool result, then a final event
\* with a text: both texts are in the reply, the tool result is nowhere
C12_Witness ==
    /\ last.op = "handle_message: events"
    /\ Len(last.args[1]) = 2
    /\ ~last.args[1][1].final /\ last.args[1][2].final
    /\ last.args[1][1].parts = <<TextPart(<<"a">>),
          [text |-> <<>>, function_call |-> "", function_response |-> "{'status': 'success'}"]>>
    /\ last.args[1][2].parts = <<TextPart(<<"LF", "b", "LF">>)>>
    /\ last.out.agent_response = <<"a", "LF", "b">>
    /\ last.out.extra_info = <<>>

----------------------------------------------------------------------------
(* get_file_lines with any arguments, checked under LinesSpec.             *)

\* C13, as stated: whatever start_line and end_line are (omitted or zero,
\* negative, beyond the T lines of the file, start_line above end_line), a
\* successful get_file_lines returns a start_line and an end_line that lie in
\* 1..T when the file is not empty and never exceed T, and when lines is not
\* empty its length is end_line - start_line + 1.
C13_AsStated ==
    last.op = "get_file_lines" /\ last.status = "success" =>
        LET T == last.out.total_lines
        IN /\ T > 0 => last.out.start_line \in 1..T /\ last.out.end_line \in 1..T
           /\ last.out.start_line <= T
           /\ last.out.end_line <= T
           /\ last.out.lines # <<>> =>
                 Len(last.out.lines) = last.out.end_line - last.out.start_line + 1

\* what holds of the returned fields: start_line is the argument as given (1
\* when omitted or zero), end_line is min(end_line argument, T) (T when
\* omitted or zero), and only end_line is held to T
C13_ReturnedFields ==
    last.op = "get_file_lines" /\ last.status = "success" =>
        LET T == last.out.total_lines
            s == last.args[2]
            e == last.args[3]
        IN /\ last.out.start_line = (IF s = 0 THEN 1 ELSE s)
           /\ last.out.end_line = (IF e = 0 \/ e > T THEN T ELSE e)
           /\ last.out.end_line <= T

\* start_line -1 on a file of 3 lines: the last two lines, reported as the
\* range -1..3
C13_NegativeStart ==
    /\ last.op = "get_file_lines"
    /\ last.status = "success"
    /\ last.out.total_lines = 3
    /\ last.args[2] = -1 /\ last.args[3] = 0
    /\ last.out.start_line = -1 /\ last.out.end_line = 3
    /\ last.out.lines = <<LineBody(2), LineBody(3)>>

----------------------------------------------------------------------------
(* Sessions, temporary files and the polling loop, checked under BotSpec.  *)

\* handle_message has called runner.run for an authorized chat
RunnerCalled ==
    /\ handled.handler = "handle_message"
    /\ handled.authorized
    /\ \E i \in 1..Len(handled.calls) : handled.calls[i].call = "runner.run"

\* C14, as stated: for every authorized free-text message the session of the
\* chat exists when runner.run is called with its user id and session id,
\* also for a chat admitted by an empty allow-list and for a chat that has
\* sent /clear.
C14_AsStated == RunnerCalled => handled.before.sessions[handled.chat].exists

\* what holds: the chats of the allow-list have the session made at startup,
\* also after /clear; no other chat ever has one
C14_SessionsOfListed == \A chat \in Chats : sessions[chat].exists <=> chat \in allow_list

\* the allow-list is empty and runner.run is called for a chat without session
C14_NoSession ==
    /\ RunnerCalled
    /\ allow_list = {}
    /\ ~handled.before.sessions[handled.chat].exists

\* handle_message has written the temporary response file of an oversized reply
TempFileWritten ==
    /\ handled.handler = "handle_message"
    /\ handled.authorized
    /\ Delivered(handled.calls, "open temp file")

\* C15, as stated: whenever handle_message has written the temporary response
\* file, the file is gone when handle_message returns, on every path, also
\* when send_document raises and the except clause catches the fault.
C15_AsStated == TempFileWritten /\ ~handled.escaped => tmp_files = handled.before.tmp_files

\* what holds: the file is gone exactly when send_document and os.remove have
\* both returned
C15_RemovedAfterSend ==
    TempFileWritten =>
        (tmp_files = handled.before.tmp_files
            <=> \/ Delivered(handled.calls, "os.remove")
                \/ handled.chat \in handled.before.tmp_files)

\* send_document raised, the fault was caught and replied, the file is left
C15_LeftBehind ==
    /\ TempFileWritten
    /\ \E i \in 1..Len(handled.calls) :
          handled.calls[i].call = "send_document" /\ ~handled.calls[i].ok
    /\ Delivered(handled.calls, "reply_to: error")
    /\ ~handled.escaped
    /\ handled.chat \in tmp_files
    /\ handled.chat \notin handled.before.tmp_files

\* C16: the polling loop of start_bot never exits: when bot.polling raises a
\* connection error or any other exception, the error is caught, the loop
\* sleeps 5 seconds and polls again, so after every failure the bot is
\* eventually polling again.  Checked under FairBotSpec.
C16_PollingGoesOn == [](pc # "exited") /\ (pc = "sleeping" ~> pc = "polling")

\* bot.polling has raised while no handler was running, and start_bot sleeps
C16_Witness == pc = "sleeping" /\ handled = NotHandled

----------------------------------------------------------------------------
(* The records of delete_files, checked under Spec.                        *)

\* the list is deleted and failed merged: every position of the list is the
\* next entry of one of the two, in the order of the list
RECURSIVE IsMerge(_, _, _)
IsMerge(list, deleted, failed) ==
    IF list = <<>> THEN deleted = <<>> /\ failed = <<>>
    ELSE \/ /\ deleted # <<>>
            /\ Head(deleted) = Head(list)
            /\ IsMerge(Tail(list), Tail(deleted), failed)
         \/ /\ failed # <<>>
            /\ Head(failed).file = Head(list)
            /\ IsMerge(Tail(list), deleted, Tail(failed))

\* C17: a delete_files call on a list of N paths that returns success or
\* partial has deleted_count + failed_count = N, deleted_count =
\* len(deleted_files), failed_count = len(failed_files); every position of the
\* list is recorded in exactly one of deleted_files and failed_files, in input
\* order; a failure on one path does not keep later paths from being
\* processed (unless os.remove itself fails, no path of the list is a regular
\* file afterwards); and no path of deleted_files exists afterwards.
C17_DeleteFilesRecords ==
    last.op = "delete_files" /\ last.status \in {"success", "partial"} =>
        LET list == last.args[1]
            out == last.out
        IN /\ out.deleted_count + out.failed_count = Len(list)
           /\ out.deleted_count = Len(out.deleted_files)
           /\ out.failed_count = Len(out.failed_files)
           /\ IsMerge(list, out.deleted_files, out.failed_files)
           /\ \A i \in 1..Len(out.deleted_files) : Kind(fs, out.deleted_files[i]) = "none"
           /\ ~last.fault =>
                 \A i \in 1..Len(list) : list[i] # NoneArg => Kind(fs, list[i]) # "file"

\* the first path does not exist, the second is a file: the first is recorded
\* as failed and the second is deleted all the same
C17_Witness ==
    /\ last.op = "delete_files"
    /\ last.status = "partial"
    /\ Len(last.args[1]) = 2
    /\ last.pre.k = 1
    /\ last.out.failed_files = <<[file |-> last.args[1][1], reason |-> "File does not exist"]>>
    /\ last.out.deleted_files = <<last.args[1][2]>>
    /\ Kind(fs, last.args[1][2]) = "none"

====
